---- MODULE Spec2Model ----
(***************************************************************************)
(* Model of the timeline model-building layer of streamlit-timeline:       *)
(*   timeline/model.py   property extraction, node parsing, chapter/aside  *)
(*                       model builder, memoized build orchestration       *)
(*   timeline/cache.py   single-file snapshot cache                        *)
(*   timeline/notion.py  memoized, paginated fetch                         *)
(*                                                                         *)
(* Python values are tagged records [t, v] so that truthiness, dict.get    *)
(* and isinstance can be computed as Python computes them.  Text whose     *)
(* characters the program inspects or assembles (startswith, sort order,   *)
(* replace: the chapter labels and the urls) is a sequence of code points; *)
(* text that is only compared for equality or emptiness (titles, ids,      *)
(* keys) is a TLA+ string.                                                 *)
(***************************************************************************)
EXTENDS Integers, Sequences, FiniteSets, TLC

VARIABLES
    properties,     \* extract_property_value: the property bag passed in
    prop_name,      \* extract_property_value: the property name passed in
    extracted,      \* extract_property_value: the value returned (NotRun before the call)
    records,        \* build_model_from_entries: the record list passed in
    built,          \* build_model_from_entries: the model the latest run returned
    built_before,   \* build_model_from_entries: the model the run before it returned
    chart,          \* create_graphviz_flowchart: its arguments and the diagram it returned
    parsed,         \* parse_entries_to_nodes: the node map returned for `records`
    file,           \* the snapshot file at the cache path: Absent or its text
    saved,          \* the latest direct call of save_snapshot_to_disk
    loaded,         \* the latest direct call of load_snapshot_from_disk after it
    database,       \* the external source: per source id, its pages of records
    notion_key,     \* whether NOTION_KEY is set in the environment
    entries_memo,   \* st.cache_data of get_all_database_entries, by database_id
    model_memo,     \* st.cache_data of build_timeline_model, by (database_id, force_refresh)
    call,           \* the build_timeline_model call in progress or just completed
    calls           \* number of build_timeline_model calls made so far

extract_vars == <<properties, prop_name, extracted>>
builder_vars == <<records, built, built_before, chart, parsed>>
cache_vars   == <<saved, loaded>>
app_vars     == <<database, notion_key, entries_memo, model_memo, call, calls>>
vars == <<properties, prop_name, extracted, records, built, built_before, chart,
          parsed, file, saved, loaded,
          database, notion_key, entries_memo, model_memo, call, calls>>

-----------------------------------------------------------------------------
(* Python values *)

Str(s)  == [t |-> "str",  v |-> s]
Bool(b) == [t |-> "bool", v |-> b]
List(l) == [t |-> "list", v |-> l]
Dict(d) == [t |-> "dict", v |-> d]
None    == [t |-> "none", v |-> 0]
\* An exception propagating out of the expression being evaluated.
Raise   == [t |-> "raise", v |-> 0]
\* No call has been made yet.
NotRun  == [t |-> "notrun", v |-> 0]

EmptyDict == Dict(<< >>)

\* bool(x): None, False, "", [] and {} are falsy.
Truthy(x) ==
    CASE x.t = "none" -> FALSE
      [] x.t = "bool" -> x.v
      [] x.t = "str"  -> Len(x.v) > 0
      [] x.t = "list" -> Len(x.v) > 0
      [] x.t = "dict" -> DOMAIN x.v # {}
      [] OTHER        -> FALSE

\* d.get(k, default); an AttributeError when d is not a dict.
Get(d, k, default) ==
    IF d.t # "dict" THEN Raise
    ELSE IF k \in DOMAIN d.v THEN d.v[k] ELSE default

\* x or y
Or(x, y) == IF x.t = "raise" THEN Raise ELSE IF Truthy(x) THEN x ELSE y

\* " ".join(parts) for a sequence of Str values; a TypeError when a part is
\* not a str.
RECURSIVE JoinSpace(_)
JoinSpace(parts) ==
    IF Len(parts) = 0 THEN Str("")
    ELSE IF Head(parts).t # "str" THEN Raise
    ELSE IF Len(parts) = 1 THEN Head(parts)
    ELSE LET rest == JoinSpace(Tail(parts))
         IN IF rest.t = "raise" THEN Raise
            ELSE Str(Head(parts).v \o " " \o rest.v)

\* [item.get(key, "") for item in items]
GetEach(items, key) == [i \in 1..Len(items) |-> Get(items[i], key, Str(""))]

AnyRaise(items) == \E i \in 1..Len(items) : items[i].t = "raise"

-----------------------------------------------------------------------------
(* timeline/model.py: extract_property_value *)

\* if detected_type == "title" and prop_data.get("title"): first run's text
extract_title(prop_data) ==
    LET runs == Get(prop_data, "title", None)
    IN IF runs.t # "list" THEN Raise
       ELSE IF Len(runs.v) = 0 THEN Str("")
       ELSE Get(runs.v[1], "plain_text", Str(""))

\* elif detected_type == "rich_text" and prop_data.get("rich_text")
extract_rich_text(prop_data) ==
    LET runs == Get(prop_data, "rich_text", None)
    IN IF runs.t # "list" THEN Raise
       ELSE LET texts == GetEach(runs.v, "plain_text")
            IN IF AnyRaise(texts) THEN Raise ELSE JoinSpace(texts)

\* elif detected_type == "relation" and prop_data.get("relation")
extract_relation(prop_data) ==
    LET rels == Get(prop_data, "relation", None)
    IN IF rels.t # "list" THEN Raise
       ELSE LET ids == GetEach(rels.v, "id")
            IN IF AnyRaise(ids) THEN Raise ELSE List(ids)

\* The guard dropped: the branch is taken on the type discriminator alone.
has_payload_unguarded(prop_data, key) == TRUE

\* "... and prop_data.get(key)": the payload is present and non-empty.
has_payload(prop_data, key) == Truthy(Get(prop_data, key, None))

extract_property_value(props, name) ==
    LET prop_data == Get(props, name, EmptyDict)
    IN IF prop_data.t # "dict" THEN Raise
       ELSE
       LET detected_type == Get(prop_data, "type", Str(""))
       IN IF detected_type = Str("title") /\ has_payload(prop_data, "title")
            THEN extract_title(prop_data)
          ELSE IF detected_type = Str("rich_text") /\ has_payload(prop_data, "rich_text")
            THEN extract_rich_text(prop_data)
          ELSE IF detected_type = Str("url")
            THEN Get(prop_data, "url", Str(""))
          ELSE IF detected_type = Str("checkbox")
            THEN Get(prop_data, "checkbox", Bool(FALSE))
          ELSE IF detected_type = Str("select") /\ has_payload(prop_data, "select")
            THEN Get(Get(prop_data, "select", None), "name", Str(""))
          ELSE IF detected_type = Str("relation") /\ has_payload(prop_data, "relation")
            THEN extract_relation(prop_data)
          ELSE Str("")

-----------------------------------------------------------------------------
(* Text as code points *)

Prologue  == <<80, 114, 111, 108, 111, 103, 117, 101>>           \* "Prologue"
Chapter   == <<67, 104, 97, 112, 116, 101, 114>>                 \* "Chapter"
AsideLowerCase == <<97, 115, 105, 100, 101>>                     \* "aside"
Aside     == <<65, 115, 105, 100, 101>>                          \* "Aside"
Chapter1  == <<67, 104, 97, 112, 116, 101, 114, 32, 49>>         \* "Chapter 1"
Chapter2  == <<67, 104, 97, 112, 116, 101, 114, 32, 50>>         \* "Chapter 2"
Chapter10 == <<67, 104, 97, 112, 116, 101, 114, 32, 49, 48>>     \* "Chapter 10"
Aside1    == <<65, 115, 105, 100, 101, 32, 49>>                  \* "Aside 1"
Aside2    == <<65, 115, 105, 100, 101, 32, 50>>                  \* "Aside 2"
Epilogue  == <<69, 112, 105, 108, 111, 103, 117, 101>>           \* "Epilogue"
HttpsX    == <<104, 116, 116, 112, 115, 58, 47, 47, 120>>        \* "https://x"

\* a < b on str: lexicographic by code point, a proper prefix first.
RECURSIVE StrLess(_, _)
StrLess(a, b) ==
    IF Len(b) = 0 THEN FALSE
    ELSE IF Len(a) = 0 THEN TRUE
    ELSE IF a[1] < b[1] THEN TRUE
    ELSE IF a[1] > b[1] THEN FALSE
    ELSE StrLess(Tail(a), Tail(b))

\* s.startswith(prefix)
startswith(s, prefix) ==
    /\ Len(s) >= Len(prefix)
    /\ SubSeq(s, 1, Len(prefix)) = prefix

RECURSIVE InsertSorted(_, _)
InsertSorted(x, s) ==
    IF Len(s) = 0 THEN <<x>>
    ELSE IF StrLess(x, Head(s)) THEN <<x>> \o s
    ELSE <<Head(s)>> \o InsertSorted(x, Tail(s))

\* sorted(items) for a sequence of str
RECURSIVE sorted(_)
sorted(items) ==
    IF Len(items) = 0 THEN << >>
    ELSE InsertSorted(Head(items), sorted(Tail(items)))

Range(s) == {s[i] : i \in 1..Len(s)}

\* The orders in which iterating a Python set may yield its elements (the
\* order of a set of str depends on the process's hash seed).
IterationOrders(S) ==
    {s \in [1..Cardinality(S) -> S] : Range(s) = S}

-----------------------------------------------------------------------------
(* timeline/model.py: parse_entries_to_nodes *)

\* The Title property tried before the Name property.
title_from_props_title_first(props) ==
    Or(extract_property_value(props, "Title"),
       Or(extract_property_value(props, "Name"), Str("Untitled")))

\* extract(props, "Name") or extract(props, "Title") or "Untitled"
title_from_props(props) ==
    Or(extract_property_value(props, "Name"),
       Or(extract_property_value(props, "Title"), Str("Untitled")))

\* Only the first id of the relation kept.
links_first_only(x) == IF x.t = "list" THEN SubSeq(x.v, 1, 1) ELSE << >>

\* if isinstance(x, list): node.<links> = x   (else the constructor's [])
links_or_empty(x) == IF x.t = "list" THEN x.v ELSE << >>

\* The EventNode that the loop body builds for one entry.
EventNode(entry) ==
    LET props == Get(entry, "properties", EmptyDict)
    IN [notion_id          |-> Get(entry, "id", Str("")),
        title              |-> title_from_props(props),
        url                |-> extract_property_value(props, "URL"),
        is_chapter_heading |-> extract_property_value(props, "Chapter Heading"),
        next_events        |-> links_or_empty(extract_property_value(props, "Next Event")),
        prior_events       |-> links_or_empty(extract_property_value(props, "Prior Event"))]

\* nodes[notion_id] = node for each entry in order: the last entry with an
\* id wins.
parse_entries_to_nodes(entries) ==
    LET ids == {Get(entries[i], "id", Str("")).v : i \in 1..Len(entries)}
        last(id) == CHOOSE i \in 1..Len(entries) :
                        /\ Get(entries[i], "id", Str("")).v = id
                        /\ \A j \in (i+1)..Len(entries) :
                               Get(entries[j], "id", Str("")).v # id
    IN [id \in ids |-> EventNode(entries[last(id)])]

-----------------------------------------------------------------------------
(* timeline/model.py: build_model_from_entries *)

\* The test of the property's type dropped.
chapter_of_untyped(entry) ==
    LET chapter_prop == Get(Get(entry, "properties", EmptyDict), "Chapter", EmptyDict)
    IN IF Truthy(Get(chapter_prop, "select", None))
       THEN Get(Get(chapter_prop, "select", None), "name", Str(""))
       ELSE Str("")

\* The chapter value the grouping loop resolves for one entry ("" if none).
chapter_of(entry) ==
    LET chapter_prop == Get(Get(entry, "properties", EmptyDict), "Chapter", EmptyDict)
    IN IF /\ Get(chapter_prop, "type", None) = Str("select")
          /\ Truthy(Get(chapter_prop, "select", None))
       THEN Get(Get(chapter_prop, "select", None), "name", Str(""))
       ELSE Str("")

\* if chapter: the entry is grouped under the label ch
in_chapter(entry, ch) == Truthy(chapter_of(entry)) /\ chapter_of(entry).v = ch

\* entries_by_chapter.setdefault(chapter, []).append(entry), if chapter
group_by_chapter(all_entries) ==
    LET labels == {chapter_of(all_entries[i]).v :
                      i \in {j \in 1..Len(all_entries) : Truthy(chapter_of(all_entries[j]))}}
    IN [ch \in labels |-> SelectSeq(all_entries, LAMBDA e : in_chapter(e, ch))]

\* The prologue appended after the sorted chapters instead of before them.
main_chapters_prologue_last(chapters_set, iter) ==
    SelectSeq(sorted(iter), LAMBDA ch : startswith(ch, Chapter))
        \o (IF Prologue \in chapters_set THEN <<Prologue>> ELSE << >>)

\* chapters: "Prologue" first if present, then the sorted "Chapter..." labels
main_chapters(chapters_set, iter) ==
    (IF Prologue \in chapters_set THEN <<Prologue>> ELSE << >>)
        \o SelectSeq(sorted(iter), LAMBDA ch : startswith(ch, Chapter))

\* The sort dropped: the asides in the set's iteration order.
aside_chapter_list_unsorted(iter) ==
    SelectSeq(iter, LAMBDA ch : startswith(ch, Aside))

\* aside_chapters = sorted([ch for ch in chapters_set if ch.startswith("Aside")])
aside_chapter_list(iter) ==
    sorted(SelectSeq(iter, LAMBDA ch : startswith(ch, Aside)))

\* titles of the entries of one chapter whose property `flag` is truthy
flagged_titles(entries, flag) ==
    {title_from_props(Get(entries[i], "properties", EmptyDict)) :
        i \in {j \in 1..Len(entries) :
                  Truthy(extract_property_value(
                      Get(entries[j], "properties", EmptyDict), flag))}}

\* headings_by_aside[aside] = set(titles of "Chapter Heading" entries)
headings_of(entries_by_chapter, aside_chapters) ==
    [aside \in Range(aside_chapters) |->
        flagged_titles(entries_by_chapter[aside], "Chapter Heading")]

\* The skip of the prologue dropped.
outlink_mains_with_prologue(entries_by_chapter, chapters) ==
    SelectSeq(chapters, LAMBDA main :
        flagged_titles(entries_by_chapter[main], "Aside Heading") # {})

\* The main chapters that get an outlink-title set: the loop skips the
\* prologue, and a chapter with no flagged entry gets no key.
outlink_mains(entries_by_chapter, chapters) ==
    SelectSeq(chapters, LAMBDA main :
        /\ main # Prologue
        /\ flagged_titles(entries_by_chapter[main], "Aside Heading") # {})

\* outlinks_by_main[main] = set(titles of "Aside Heading" entries)
outlinks_of(entries_by_chapter, chapters) ==
    [main \in Range(outlink_mains(entries_by_chapter, chapters)) |->
        flagged_titles(entries_by_chapter[main], "Aside Heading")]

\* Both title sets non-empty instead of intersecting.
titles_match_any(out_titles, head_titles) == out_titles # {} /\ head_titles # {}

\* if out_titles & head_titles
titles_match(out_titles, head_titles) == out_titles \cap head_titles # {}

\* chapter_aside_mapping.setdefault(main, []).append(aside) over the two
\* dicts in insertion order: a key only for a main with a match, its asides
\* in aside_chapters order.
aside_mapping(outlinks_by_main, headings_by_aside, aside_chapters) ==
    LET linked(main) ==
            SelectSeq(aside_chapters, LAMBDA aside :
                titles_match(outlinks_by_main[main], headings_by_aside[aside]))
    IN [main \in {m \in DOMAIN outlinks_by_main : Len(linked(m)) > 0} |-> linked(main)]

\* iter: the order in which this run iterates chapters_set.
\* A node map for every chapter label that has records.
node_chapters_all(entries_by_chapter, chapters, aside_chapters) ==
    DOMAIN entries_by_chapter

\* for chapter in set(list(chapters) + aside_chapters)
node_chapters(entries_by_chapter, chapters, aside_chapters) ==
    Range(chapters) \cup Range(aside_chapters)

build_model_from_entries(all_entries, iter) ==
    LET entries_by_chapter == group_by_chapter(all_entries)
        chapters_set       == DOMAIN entries_by_chapter
        chapters           == main_chapters(chapters_set, iter)
        aside_chapters     == aside_chapter_list(iter)
        headings_by_aside  == headings_of(entries_by_chapter, aside_chapters)
        outlinks_by_main   == outlinks_of(entries_by_chapter, chapters)
    IN [t |-> "model",
        chapters              |-> chapters,
        aside_chapters        |-> aside_chapters,
        entries_by_chapter    |-> entries_by_chapter,
        nodes_by_chapter      |->
            [ch \in node_chapters(entries_by_chapter, chapters, aside_chapters) |->
                parse_entries_to_nodes(entries_by_chapter[ch])],
        chapter_aside_mapping |->
            aside_mapping(outlinks_by_main, headings_by_aside, aside_chapters),
        headings_by_aside     |-> headings_by_aside,
        entry_count           |-> Len(all_entries)]

-----------------------------------------------------------------------------
(* timeline/graph.py: create_graphviz_flowchart *)

\* list(nodes.keys()): a dict keeps its keys in the order of their first
\* insertion, here the order in which parse_entries_to_nodes met the ids.
RECURSIVE keys_in_order(_)
keys_in_order(entries) ==
    IF Len(entries) = 0 THEN << >>
    ELSE LET front == keys_in_order(SubSeq(entries, 1, Len(entries) - 1))
             id == Get(entries[Len(entries)], "id", Str("")).v
         IN IF id \in Range(front) THEN front ELSE Append(front, id)

\* notion_id_to_dot_id[node_id]: the i of "node_<i>"
dot_id(keys, node_id) == (CHOOSE i \in 1..Len(keys) : keys[i] = node_id) - 1

\* entry_props_by_id.get(notion_id), over {e.get("id", ""): e.get("properties", {})
\* for e in (current_entries or [])}: the last entry under an id wins.
entry_props(current_entries, notion_id) ==
    IF ~Truthy(current_entries) THEN None
    ELSE LET es == current_entries.v
             at == {i \in 1..Len(es) : Get(es[i], "id", Str("")).v = notion_id}
         IN IF at = {} THEN None
            ELSE Get(es[CHOOSE i \in at : \A j \in at : j <= i], "properties", EmptyDict)

\* find_aside_for_title: the first aside, in the dict's order, whose title
\* set holds node_title; None without a dict, or without a match.
find_aside_for_title(titles_by_aside, node_title) ==
    IF ~Truthy(titles_by_aside) THEN None
    ELSE LET hits == SelectSeq(titles_by_aside.keys,
                         LAMBDA aside : node_title \in titles_by_aside.v[aside])
         IN IF Len(hits) = 0 THEN None ELSE Str(hits[1])

\* s.replace(' ', '%20')
RECURSIVE replace_spaces(_)
replace_spaces(s) ==
    IF Len(s) = 0 THEN << >>
    ELSE (IF Head(s) = 32 THEN <<37, 50, 48>> ELSE <<Head(s)>>)
             \o replace_spaces(Tail(s))

\* f"?chapter={matching_aside.replace(' ', '%20')}"
chapter_href(matching_aside) ==
    Str(<<63, 99, 104, 97, 112, 116, 101, 114, 61>> \o replace_spaces(matching_aside.v))

\* if aside_heading and node.url
is_outlink(aside_heading, url) == Truthy(aside_heading) /\ Truthy(url)

\* The node statement of one EventNode: its dot id, label (the marker
\* prefix apart from the title, which wrapping and escaping leave as it is
\* for a short title without quotes, backslashes or control characters),
\* font size, and href and target (None for a statement without them).
node_statement(keys, node, props, titles_by_aside, base_font_size) ==
    LET aside_heading == IF Truthy(props)
                         THEN extract_property_value(props, "Aside Heading")
                         ELSE None
        is_aside_outlink == is_outlink(aside_heading, node.url)
        matching_aside == IF is_aside_outlink
                          THEN find_aside_for_title(titles_by_aside, node.title)
                          ELSE None
        node_url == IF Truthy(matching_aside) THEN chapter_href(matching_aside)
                    ELSE node.url
    IN [dot_id   |-> dot_id(keys, node.notion_id.v),
        marker   |-> is_aside_outlink,
        label    |-> node.title,
        bold     |-> Truthy(node.is_chapter_heading),
        fontsize |-> IF Truthy(node.is_chapter_heading)
                     THEN base_font_size + 2 ELSE base_font_size,
        href     |-> IF Truthy(node_url) THEN node_url ELSE None,
        target   |-> IF ~Truthy(node_url) THEN None
                     ELSE IF is_aside_outlink THEN Str("_self") ELSE Str("_blank")]

\* The edges drawn from prior_events instead of next_events.
edge_statements_from_prior(keys, node) ==
    LET resolvable == SelectSeq(node.prior_events, LAMBDA prior : prior.v \in Range(keys))
    IN [i \in 1..Len(resolvable) |->
           [source |-> dot_id(keys, node.notion_id.v),
            target |-> dot_id(keys, resolvable[i].v)]]

\* The edge statements of one EventNode: one per entry of next_events that
\* is a key of the node map, in order.
edge_statements(keys, node) ==
    LET resolvable == SelectSeq(node.next_events, LAMBDA next : next.v \in Range(keys))
    IN [i \in 1..Len(resolvable) |->
           [source |-> dot_id(keys, node.notion_id.v),
            target |-> dot_id(keys, resolvable[i].v)]]

RECURSIVE Concat(_)
Concat(seqs) == IF Len(seqs) = 0 THEN << >> ELSE Head(seqs) \o Concat(Tail(seqs))

\* create_graphviz_flowchart(nodes, chapter_name, aside_mapping,
\* current_entries, aside_heading_titles_by_aside): the statements of the
\* DOT text.  keys is list(nodes.keys()); a dict argument is its keys in
\* order and its values.
create_graphviz_flowchart(nodes, keys, chapter_name, current_entries, titles_by_aside) ==
    LET is_simple_graph == Len(keys) <= 5
        is_aside == startswith(chapter_name, Aside)
        base_font_size == IF is_simple_graph \/ is_aside THEN 12 ELSE 11
    IN [t      |-> "dot",
        layout |-> IF is_simple_graph \/ is_aside THEN "fill" ELSE "auto",
        nodes  |-> [i \in 1..Len(keys) |->
                       node_statement(keys, nodes[keys[i]],
                                      entry_props(current_entries, keys[i]),
                                      titles_by_aside, base_font_size)],
        edges  |-> Concat([i \in 1..Len(keys) |-> edge_statements(keys, nodes[keys[i]])])]

-----------------------------------------------------------------------------
(* timeline/cache.py: the snapshot file *)

Num(n) == [t |-> "int", v |-> n]

\* Most tokens a failing json.dump leaves in the file.
MaxPartial == 1

\* No file at the cache path.
Absent == [t |-> "absent", v |-> << >>]
\* A file whose text is the token sequence toks.
Text(toks) == [t |-> "text", v |-> toks]

\* JSON text, one token per brace, bracket, object member and array item.
Token(kind, key, value) == [tok |-> kind, k |-> key, v |-> value]
Member(key, value) == Token("member", key, value)
Item(value) == Token("item", "", value)

\* json.dump(payload, f, separators=(",", ":")) of a dict whose keys, in
\* insertion order, are `keys`.
json_dump(keys, payload) ==
    <<Token("{", "", None)>>
        \o [i \in 1..Len(keys) |-> Member(keys[i], payload[keys[i]])]
        \o <<Token("}", "", None)>>

\* json.load(f): the value the text denotes; Raise (JSONDecodeError) when
\* the text is not one complete JSON value.
json_load(toks) ==
    LET n == Len(toks)
        inner == SubSeq(toks, 2, n - 1)
        closed(open, close, kind) ==
            /\ n >= 2
            /\ toks[1].tok = open
            /\ toks[n].tok = close
            /\ \A i \in 2..(n - 1) : toks[i].tok = kind
        last(key) == CHOOSE i \in 1..Len(inner) :
                         /\ inner[i].k = key
                         /\ \A j \in (i + 1)..Len(inner) : inner[j].k # key
    IN IF closed("{", "}", "member")
         THEN Dict([key \in {inner[i].k : i \in 1..Len(inner)} |-> inner[last(key)].v])
       ELSE IF closed("[", "]", "item")
         THEN List([i \in 1..Len(inner) |-> inner[i].v])
       ELSE Raise

\* The comparison of the stored database_id with the requested one dropped.
load_snapshot_body_any_id(content, database_id) ==
    IF content = Absent THEN None
    ELSE LET data == json_load(content.v)
         IN IF data = Raise THEN Raise
            ELSE IF data.t # "dict" THEN None
            ELSE LET entries == Get(data, "all_entries", None)
                 IN IF entries.t = "list" THEN entries ELSE None

\* The body of load_snapshot_from_disk's try block.
load_snapshot_body(content, database_id) ==
    IF content = Absent THEN None
    ELSE LET data == json_load(content.v)
         IN IF data = Raise THEN Raise
            ELSE IF data.t # "dict" THEN None
            ELSE IF Get(data, "database_id", None) # Str(database_id) THEN None
            ELSE LET entries == Get(data, "all_entries", None)
                 IN IF entries.t = "list" THEN entries ELSE None

\* The try/except dropped: a read or parse failure reaches the caller.
load_snapshot_unguarded(content, database_id) ==
    load_snapshot_body(content, database_id)

\* try: ... except Exception: return None
load_snapshot_from_disk(content, database_id) ==
    LET r == load_snapshot_body(content, database_id)
    IN IF r = Raise THEN None ELSE r

\* The database_id member left out of the payload.
snapshot_text_without_id(database_id, fetched_at, all_entries) ==
    json_dump(<<"fetched_at", "all_entries", "schema_version">>,
              [fetched_at     |-> Str(fetched_at),
               all_entries    |-> List(all_entries),
               schema_version |-> Num(1)])

\* The text a completed save writes.
snapshot_text(database_id, fetched_at, all_entries) ==
    json_dump(<<"database_id", "fetched_at", "all_entries", "schema_version">>,
              [database_id    |-> Str(database_id),
               fetched_at     |-> Str(fetched_at),
               all_entries    |-> List(all_entries),
               schema_version |-> Num(1)])

\* What a save can do to the disk: complete; fail in open(), before the
\* file is touched; fail in json.dump, after open() truncated the file and
\* `written` tokens, at most MaxPartial, reached it.
SaveOutcomes(database_id, fetched_at, all_entries) ==
    LET full == Len(snapshot_text(database_id, fetched_at, all_entries))
    IN {[ok |-> TRUE, opened |-> TRUE, written |-> full],
        [ok |-> FALSE, opened |-> FALSE, written |-> 0]}
       \cup {[ok |-> FALSE, opened |-> TRUE, written |-> n] :
                n \in {m \in 0..MaxPartial : m < full}}

\* The write dropped: the file is left as it was.
save_snapshot_noop(content, database_id, fetched_at, all_entries, outcome) == content

\* save_snapshot_to_disk: the file after the call; the exception of a
\* failing open() or json.dump is swallowed.
save_snapshot_to_disk(content, database_id, fetched_at, all_entries, outcome) ==
    IF ~outcome.opened THEN content
    ELSE Text(SubSeq(snapshot_text(database_id, fetched_at, all_entries),
                     1, outcome.written))

-----------------------------------------------------------------------------
(* timeline/notion.py: the paginated fetch *)

\* The cursor the source hands out for page i: an opaque non-empty string.
Cursor(i) == Str(<<i>>)

\* An external source: the pages it serves and how the response of a page
\* that has a successor names it: "given" (the successor's cursor, as the
\* record store does), "empty" (an empty string), "null", or "missing" (no
\* next_cursor key in the response).
Source(pages, cursors) == [pages |-> pages, cursors |-> cursors]

\* _notion_client.databases.query(**query_params) answered by `source`:
\* the page the cursor names, the first without one; an error (an exception
\* in the client) for a cursor that names no page.
databases_query(source, query_params) ==
    LET pages == source.pages
        i == IF "start_cursor" \in DOMAIN query_params
             THEN query_params["start_cursor"].v[1] ELSE 1
        page == ("results" :> List(pages[i])) @@ ("has_more" :> Bool(i < Len(pages)))
    IN IF i > Len(pages) THEN Raise
       ELSE IF i = Len(pages) THEN Dict(page @@ ("next_cursor" :> None))
       ELSE IF source.cursors = "given" THEN Dict(page @@ ("next_cursor" :> Cursor(i + 1)))
       ELSE IF source.cursors = "empty" THEN Dict(page @@ ("next_cursor" :> Str(<< >>)))
       ELSE IF source.cursors = "null" THEN Dict(page @@ ("next_cursor" :> None))
       ELSE Dict(page)

\* query_params = {"database_id": database_id}
\* if next_cursor: query_params["start_cursor"] = next_cursor
query_params_for(database_id, next_cursor) ==
    IF Truthy(next_cursor)
    THEN ("database_id" :> Str(database_id)) @@ ("start_cursor" :> next_cursor)
    ELSE ("database_id" :> Str(database_id))

\* The results put in front of the list.
extend_front(all_entries, results) == results \o all_entries

\* all_entries.extend(response["results"])
extend(all_entries, results) == all_entries \o results

\* The pages accumulated before the failure returned instead of [].
fetch_failed_partial(all_entries) == List(all_entries)

\* except Exception as e: st.error(...); return []
fetch_failed(all_entries) == List(<< >>)

\* The try inside the loop: the locals are kept and the page is asked again.
fetch_retried(locals) == [locals EXCEPT !.pc = "page"]

\* The except clause is outside the while loop: the loop is left for good
\* and the caller goes on with the returned list.
fetch_abandoned(locals) ==
    [locals EXCEPT !.entries = fetch_failed(locals.all_entries),
                   !.all_entries = << >>,
                   !.has_more = FALSE,
                   !.next_cursor = None,
                   !.pc = "save"]

-----------------------------------------------------------------------------
(* timeline/model.py: build_timeline_model *)

\* The locals of a call that has not started; all_entries, has_more and
\* next_cursor are the locals of get_all_database_entries while it runs,
\* and requests is the exchange with the source during that run: for each
\* databases.query call the start_cursor sent (None for a request without
\* one) and the response received (Raise for a request that failed).
NoCall ==
    [pc            |-> "idle",
     database_id   |-> "",
     force_refresh |-> FALSE,
     entries       |-> None,
     all_entries   |-> << >>,
     has_more      |-> FALSE,
     next_cursor   |-> None,
     requests      |-> << >>,
     result        |-> NotRun,
     log           |-> << >>]

\* The memoized model never found, as with a ttl that has always elapsed.
cached_model_expired(memo, database_id, force_refresh) == NotRun

\* @st.cache_data(ttl=None): the model memoized for these arguments, NotRun
\* if the body has not returned for them since the last clear.
cached_model(memo, database_id, force_refresh) == memo[<<database_id, force_refresh>>]

\* The test dropped: every call fetches.
after_load_always_fetch(entries) == "client"

\* if entries is None: fetch and save; else build from the loaded entries
after_load(entries) == IF entries = None THEN "client" ELSE "build"

\* The model a run builds from `entries`, under one of the iteration orders
\* of the chapter set.
model_of(entries) ==
    build_model_from_entries(entries,
        CHOOSE iter \in IterationOrders(DOMAIN group_by_chapter(entries)) : TRUE)

-----------------------------------------------------------------------------
(* Inputs: raw records shaped as the record store returns them *)

\* tests/test_model.py make_entry: a record with all eight properties.
make_entry(notion_id, title, chapter, url, chapter_heading, aside_heading, next_ids, prior_ids) ==
    LET text(s) == Dict(("type" :> Str("title"))
                        @@ ("title" :> List(<<Dict("plain_text" :> Str(s))>>)))
        rel(ids) == Dict(("type" :> Str("relation"))
                         @@ ("relation" :>
                                List([i \in 1..Len(ids) |-> Dict("id" :> Str(ids[i]))])))
        check(b) == Dict(("type" :> Str("checkbox")) @@ ("checkbox" :> Bool(b)))
    IN Dict(("id" :> Str(notion_id))
         @@ ("properties" :> Dict(
                ("Name" :> text(title))
             @@ ("Title" :> text(title))
             @@ ("Chapter" :> Dict(("type" :> Str("select"))
                                   @@ ("select" :> Dict("name" :> Str(chapter)))))
             @@ ("URL" :> Dict(("type" :> Str("url")) @@ ("url" :> Str(url))))
             @@ ("Chapter Heading" :> check(chapter_heading))
             @@ ("Aside Heading" :> check(aside_heading))
             @@ ("Next Event" :> rel(next_ids))
             @@ ("Prior Event" :> rel(prior_ids)))))

\* The record with the properties in `names` left out.
without(entry, names) ==
    LET props == entry.v["properties"].v
    IN Dict(("id" :> entry.v["id"])
         @@ ("properties" :> Dict([n \in (DOMAIN props) \ names |-> props[n]])))

\* The record with property `name` replaced by `prop_data`.
with_prop(entry, name, prop_data) ==
    LET props == entry.v["properties"].v
    IN Dict(("id" :> entry.v["id"])
         @@ ("properties" :> Dict((name :> prop_data) @@ props)))

\* Property payloads the record store produces for the property types the
\* program reads, with the payload present, empty, null or missing, plus a
\* type the program does not know and a property without a type.
PropDatas ==
    LET typed(ty, payload) == Dict(("type" :> Str(ty)) @@ (ty :> payload))
        run(s) == Dict("plain_text" :> Str(s))
        Runs == { << >>, <<run("Alpha")>>, <<run("Alpha"), run("Beta")>>,
                  <<run("")>>, <<EmptyDict>>, <<EmptyDict, run("Beta")>> }
    IN    { EmptyDict, Dict("type" :> None), Dict("type" :> Str("")) }
     \cup { Dict("type" :> Str(ty)) :
              ty \in {"title", "rich_text", "url", "checkbox", "select",
                      "relation", "number"} }
     \cup { typed(ty, None) :
              ty \in {"title", "rich_text", "url", "checkbox", "select",
                      "relation", "number"} }
     \cup { typed("title", List(r)) : r \in Runs }
     \cup { typed("rich_text", List(r)) : r \in Runs }
     \cup { typed("url", Str(u)) : u \in {<< >>, HttpsX} }
     \cup { typed("checkbox", Bool(b)) : b \in BOOLEAN }
     \cup { typed("select", o) : o \in {EmptyDict, Dict("name" :> Str(Chapter1)),
                                        Dict("name" :> Str(<< >>))} }
     \cup { typed("relation", List(r)) :
              r \in { << >>, <<Dict("id" :> Str("A"))>>,
                      <<Dict("id" :> Str("B")), Dict("id" :> Str("A"))>>,
                      <<EmptyDict>> } }
     \cup { typed("number", Str("7")),
            Dict(("type" :> Str("number")) @@ ("title" :> List(<<run("Alpha")>>))) }

PropNames == {"Name", "URL"}

\* Property bags with at most one property.
PropertyBags ==
    {EmptyDict} \cup {Dict(n :> pd) : n \in PropNames, pd \in PropDatas}

\* Records: main, aside, prologue and other chapters, shared and distinct
\* titles, flagged and unflagged, with and without a resolvable chapter or
\* title, two of them under one id.
Records ==
    { make_entry("P1", "Shared", Prologue,  << >>, FALSE, TRUE,  << >>, << >>),
      make_entry("M1", "Shared", Chapter1,  HttpsX, FALSE, TRUE,  <<"M2", "ZZ">>, << >>),
      make_entry("M2", "Other",  Chapter1,  << >>, FALSE, FALSE, << >>, <<"M1">>),
      make_entry("M3", "Other",  Chapter2,  << >>, FALSE, TRUE,  <<"M3">>, << >>),
      make_entry("M4", "Shared", Chapter10, << >>, FALSE, TRUE,  << >>, << >>),
      make_entry("S1", "Shared", Aside1,    << >>, TRUE,  FALSE, << >>, << >>),
      make_entry("S2", "Other",  Aside2,    << >>, TRUE,  FALSE, << >>, << >>),
      make_entry("S3", "Shared", Aside2,    << >>, FALSE, FALSE, << >>, << >>),
      make_entry("S5", "Shared", Aside2,    << >>, TRUE,  FALSE, << >>, << >>),
      make_entry("E1", "Shared", Epilogue,  << >>, TRUE,  TRUE,  << >>, << >>),
      without(make_entry("X1", "Shared", Chapter1, << >>, FALSE, TRUE, << >>, << >>),
              {"Chapter"}),
      with_prop(make_entry("X2", "Shared", Aside1, << >>, TRUE, FALSE, << >>, << >>),
                "Chapter", Dict(("type" :> Str("select")) @@ ("select" :> None))),
      without(make_entry("M1", "", Chapter1, << >>, FALSE, TRUE, << >>, << >>),
              {"Name", "Title", "Next Event", "URL"}),
      with_prop(without(make_entry("S4", "", Aside1, << >>, TRUE, FALSE, << >>, << >>),
                        {"Title"}),
                "Name", Dict(("type" :> Str("title")) @@ ("title" :> List(<< >>)))) }

\* Records shown in diagrams: outlinks with and without a url, with a title
\* that is a heading of no aside, of one or of two; links to a record of the
\* same chapter, of another chapter, of no record, to itself and twice to
\* one record; two records under one id.
GraphRecords ==
    { make_entry("M1", "Shared", Chapter1, HttpsX, FALSE, TRUE,  <<"M2", "ZZ">>, << >>),
      make_entry("M2", "Other",  Chapter1, << >>,  FALSE, FALSE, << >>, <<"M1">>),
      make_entry("M3", "Other",  Chapter2, << >>,  FALSE, TRUE,  <<"M3", "S2">>, << >>),
      make_entry("M5", "Plain",  Chapter1, HttpsX, TRUE,  FALSE, <<"M1", "M1">>, <<"M2">>),
      make_entry("S1", "Shared", Aside1,   << >>,  TRUE,  FALSE, << >>, << >>),
      make_entry("S2", "Other",  Aside2,   << >>,  TRUE,  FALSE, << >>, << >>),
      make_entry("S5", "Shared", Aside2,   << >>,  TRUE,  FALSE, <<"S2">>, << >>),
      without(make_entry("M1", "", Chapter1, << >>, FALSE, TRUE, << >>, << >>),
              {"Name", "Title", "Next Event", "URL"}) }

\* Records to parse, each under its own id: Name and Title equal, different,
\* empty or missing; a url, none, or a null one; links that name records of
\* the list, records outside it, the record itself and each other; a link
\* property that is missing, empty or of another type.
ParseRecords ==
    LET title(runs) == Dict(("type" :> Str("title")) @@ ("title" :> List(runs)))
        run(s) == Dict("plain_text" :> Str(s))
    IN { make_entry("A", "Alpha", Chapter1, HttpsX, TRUE, FALSE, <<"B", "ZZ">>, <<"A">>),
         make_entry("B", "Beta", Aside1, << >>, FALSE, TRUE, <<"A">>, <<"B", "A">>),
         with_prop(make_entry("C", "Gamma", Chapter1, << >>, FALSE, FALSE, << >>, << >>),
                   "Name", title(<< >>)),
         with_prop(make_entry("D", "Delta", Chapter2, HttpsX, TRUE, FALSE, <<"D">>, << >>),
                   "Title", title(<<run("Other")>>)),
         with_prop(make_entry("E", "Gamma", Chapter2, << >>, FALSE, FALSE, << >>, <<"A">>),
                   "Name", title(<<run("")>>)),
         without(make_entry("F", "", Chapter1, << >>, TRUE, FALSE, << >>, << >>),
                 {"Name", "Title", "URL", "Chapter Heading", "Next Event"}),
         with_prop(with_prop(make_entry("G", "", Aside1, << >>, FALSE, FALSE, << >>, <<"A">>),
                             "URL", Dict(("type" :> Str("url")) @@ ("url" :> None))),
                   "Next Event", Dict(("type" :> Str("rich_text"))
                                      @@ ("rich_text" :> List(<<run("A")>>)))) }

\* Records to group, each under its own id: in a main chapter, an aside, the
\* prologue and a chapter of another name; and without a chapter value: the
\* property missing, nothing selected, an option without a name or with an
\* empty one, a property of another type.
ChapterRecords ==
    LET select(option) == Dict(("type" :> Str("select")) @@ ("select" :> option))
        entry(id, chapter) == make_entry(id, id, chapter, << >>, FALSE, FALSE, << >>, << >>)
    IN { entry("K1", Chapter1),
         entry("K2", Chapter1),
         entry("K3", Aside1),
         entry("K4", Epilogue),
         entry("K5", Prologue),
         without(entry("U1", Chapter1), {"Chapter"}),
         with_prop(entry("U2", Chapter1), "Chapter", select(None)),
         with_prop(entry("U3", Chapter1), "Chapter", select(EmptyDict)),
         with_prop(entry("U4", Chapter1), "Chapter", select(Dict("name" :> Str(<< >>)))),
         with_prop(entry("U5", Chapter1), "Chapter",
                   Dict(("type" :> Str("multi_select"))
                        @@ ("select" :> Dict("name" :> Str(Chapter1))))) }

\* Source ids.
DatabaseIds == {"db-1", "db-2"}

\* datetime.now(timezone.utc).isoformat(): the program writes it and never
\* reads it back, so one reading stands for all.
Timestamps == {"2025-01-01T00:00:00+00:00"}

EntryA == make_entry("A", "Alpha", Chapter1, HttpsX, TRUE, TRUE, << >>, << >>)
EntryB == make_entry("B", "Alpha", Aside1, << >>, TRUE, FALSE, <<"A">>, <<"A">>)

\* Record lists held by the external source and by snapshots.
EntryLists == { << >>, <<EntryA>>, <<EntryA, EntryB>>, <<EntryB, EntryA>> }

\* Files found at the cache path when the process starts: none, an empty
\* file, a JSON array, objects without or with wrongly typed keys, and
\* snapshots left by an earlier process.
InitialFiles ==
    { Absent,
      Text(<< >>),
      Text(<<Token("[", "", None), Item(Str("db-1")), Token("]", "", None)>>),
      Text(json_dump(<< >>, << >>)),
      Text(json_dump(<<"database_id", "all_entries">>,
                     [database_id |-> Str("db-1"), all_entries |-> None])),
      Text(json_dump(<<"database_id", "all_entries">>,
                     [database_id |-> Str("db-1"), all_entries |-> Dict("A" :> EntryA)])),
      Text(json_dump(<<"database_id", "all_entries">>,
                     [database_id |-> Num(1), all_entries |-> List(<<EntryA>>)])),
      Text(json_dump(<<"all_entries">>, [all_entries |-> List(<<EntryA>>)])),
      Text(json_dump(<<"all_entries", "database_id">>,
                     [database_id |-> Str("db-2"), all_entries |-> List(<<EntryB>>)])),
      Text(snapshot_text("db-1", "2025-01-01T00:00:00+00:00", <<EntryA>>)) }

\* What the external source may hold under one source id: one page of
\* records, or two.
DatabaseContents ==
    { Source(<< <<EntryA>> >>, "given"), Source(<< <<EntryA>>, <<EntryB>> >>, "given") }

\* Sources for the fetch alone: the above, and two-page sources whose first
\* response has has_more true with an empty, null or missing next_cursor.
FetchSources ==
    DatabaseContents
        \cup { Source(<< <<EntryA>>, <<EntryB>> >>, cursors) : cursors \in {"empty", "null", "missing"} }

\* Files found at the cache path when the process starts.
StartFiles ==
    { Absent,
      Text(<< >>),
      Text(json_dump(<<"all_entries", "database_id">>,
                     [database_id |-> Str("db-2"), all_entries |-> List(<<EntryB>>)])),
      Text(snapshot_text("db-1", "2025-01-01T00:00:00+00:00", <<EntryA>>)) }

\* Calls of build_timeline_model in one process.
MaxCalls == 3

\* Longest record list passed to the builder.
MaxEntries == 3

\* Most page requests followed within one fetch.
MaxRequests == 3

-----------------------------------------------------------------------------
(* State machines *)

ExtractIdle ==
    /\ properties = EmptyDict
    /\ prop_name = ""
    /\ extracted = NotRun

BuilderIdle ==
    /\ records = << >>
    /\ built = NotRun
    /\ built_before = NotRun
    /\ chart = NotRun
    /\ parsed = NotRun

AppIdle ==
    /\ database = [d \in DatabaseIds |-> << <<EntryA>> >>]
    /\ notion_key = TRUE
    /\ entries_memo = [d \in DatabaseIds |-> NotRun]
    /\ model_memo = [k \in DatabaseIds \X BOOLEAN |-> NotRun]
    /\ call = NoCall
    /\ calls = 0

CacheIdle ==
    /\ file = Absent
    /\ saved = NotRun
    /\ loaded = NotRun

\* extract_property_value(properties, name) is called.
Extract ==
    /\ extracted = NotRun
    /\ \E name \in PropNames \cup {"Title"} :
        /\ prop_name' = name
        /\ extracted' = extract_property_value(properties, name)
    /\ UNCHANGED <<properties, builder_vars, file, cache_vars, app_vars>>

InitExtract ==
    /\ properties \in PropertyBags
    /\ prop_name = ""
    /\ extracted = NotRun
    /\ BuilderIdle
    /\ CacheIdle
    /\ AppIdle

NextExtract == Extract

SpecExtract == InitExtract /\ [][NextExtract]_vars

\* The caller assembles the record list.
AppendEntry ==
    /\ built = NotRun
    /\ Len(records) < MaxEntries
    /\ \E e \in Records : records' = Append(records, e)
    /\ UNCHANGED <<built, built_before, chart, parsed, extract_vars, file, cache_vars, app_vars>>

\* build_model_from_entries(records) runs; the set of observed chapters
\* is iterated in one of the orders a Python set may have.
Build ==
    /\ built_before = NotRun
    /\ \E iter \in IterationOrders(DOMAIN group_by_chapter(records)) :
        built' = build_model_from_entries(records, iter)
    /\ built_before' = built
    /\ UNCHANGED <<records, chart, parsed, extract_vars, file, cache_vars, app_vars>>

InitModel ==
    /\ BuilderIdle
    /\ ExtractIdle
    /\ CacheIdle
    /\ AppIdle

NextModel == AppendEntry \/ Build

SpecModel == InitModel /\ [][NextModel]_vars

\* The caller assembles the record list of a timeline to draw.
AppendGraphEntry ==
    /\ built = NotRun
    /\ Len(records) < MaxEntries
    /\ \E e \in GraphRecords : records' = Append(records, e)
    /\ UNCHANGED <<built, built_before, chart, parsed, extract_vars, file, cache_vars, app_vars>>

\* A dict as create_graphviz_flowchart receives it: its keys in insertion
\* order and its values.
OrderedDict(keys, values) == [t |-> "dict", keys |-> keys, v |-> values]

\* The aside_heading_titles_by_aside a caller passes for chapter ch: none,
\* the model's headings_by_aside, or those of the asides mapped from ch.
TitleDicts(model, ch) ==
    LET mapped == IF ch \in DOMAIN model.chapter_aside_mapping
                  THEN model.chapter_aside_mapping[ch] ELSE << >>
    IN { None,
         OrderedDict(model.aside_chapters, model.headings_by_aside),
         OrderedDict(mapped, [a \in Range(mapped) |-> model.headings_by_aside[a]]) }

\* create_graphviz_flowchart is called for one chapter of the built model,
\* with its node map and, or not, its records and the asides' heading titles.
Render ==
    /\ built.t = "model"
    /\ chart = NotRun
    /\ \E ch \in DOMAIN built.nodes_by_chapter :
        \E current_entries \in {None, List(built.entries_by_chapter[ch])} :
            \E titles_by_aside \in TitleDicts(built, ch) :
                LET keys == keys_in_order(built.entries_by_chapter[ch])
                IN chart' = [t |-> "chart",
                             chapter_name |-> ch,
                             nodes |-> built.nodes_by_chapter[ch],
                             keys |-> keys,
                             current_entries |-> current_entries,
                             titles_by_aside |-> titles_by_aside,
                             dot |-> create_graphviz_flowchart(
                                         built.nodes_by_chapter[ch], keys, ch,
                                         current_entries, titles_by_aside)]
    /\ UNCHANGED <<records, built, built_before, parsed, extract_vars, file, cache_vars,
                   app_vars>>

InitGraph ==
    /\ BuilderIdle
    /\ ExtractIdle
    /\ CacheIdle
    /\ AppIdle

NextGraph == AppendGraphEntry \/ Build \/ Render

SpecGraph == InitGraph /\ [][NextGraph]_vars

\* The caller assembles the record list to parse.
AppendParseEntry ==
    /\ parsed = NotRun
    /\ Len(records) < MaxEntries
    /\ \E e \in ParseRecords : records' = Append(records, e)
    /\ UNCHANGED <<built, built_before, chart, parsed, extract_vars, file, cache_vars,
                   app_vars>>

\* parse_entries_to_nodes(records) is called.
Parse ==
    /\ parsed = NotRun
    /\ parsed' = [t |-> "nodes", v |-> parse_entries_to_nodes(records)]
    /\ UNCHANGED <<records, built, built_before, chart, extract_vars, file, cache_vars,
                   app_vars>>

InitParse ==
    /\ BuilderIdle
    /\ ExtractIdle
    /\ CacheIdle
    /\ AppIdle

NextParse == AppendParseEntry \/ Parse

SpecParse == InitParse /\ [][NextParse]_vars

\* The caller assembles the record list to group.
AppendChapterEntry ==
    /\ built = NotRun
    /\ Len(records) < MaxEntries
    /\ \E e \in ChapterRecords : records' = Append(records, e)
    /\ UNCHANGED <<built, built_before, chart, parsed, extract_vars, file, cache_vars,
                   app_vars>>

InitGroup ==
    /\ BuilderIdle
    /\ ExtractIdle
    /\ CacheIdle
    /\ AppIdle

NextGroup == AppendChapterEntry \/ Build

SpecGroup == InitGroup /\ [][NextGroup]_vars

\* save_snapshot_to_disk(database_id, all_entries) is called directly.
SaveSnapshot ==
    \E database_id \in DatabaseIds, all_entries \in EntryLists, fetched_at \in Timestamps :
        \E outcome \in SaveOutcomes(database_id, fetched_at, all_entries) :
            /\ file' = save_snapshot_to_disk(file, database_id, fetched_at,
                                             all_entries, outcome)
            /\ saved' = [t |-> "save", database_id |-> database_id,
                         all_entries |-> all_entries, ok |-> outcome.ok,
                         before |-> file]
            /\ loaded' = NotRun
            /\ UNCHANGED <<extract_vars, builder_vars, app_vars>>

\* load_snapshot_from_disk(database_id) is called directly.
LoadSnapshot ==
    \E database_id \in DatabaseIds :
        /\ loaded' = [t |-> "load", database_id |-> database_id,
                      result |-> load_snapshot_from_disk(file, database_id)]
        /\ UNCHANGED <<file, saved, extract_vars, builder_vars, app_vars>>

InitCache ==
    /\ file \in InitialFiles
    /\ saved = NotRun
    /\ loaded = NotRun
    /\ ExtractIdle
    /\ BuilderIdle
    /\ AppIdle

NextCache == SaveSnapshot \/ LoadSnapshot

SpecCache == InitCache /\ [][NextCache]_vars

\* No call is in progress: the script is between two interactions.
AtRest == call.pc = "idle"

Logged(event) == Append(call.log, event)

\* The start_cursor a request carries, None for a request without one.
Sent(query_params) ==
    IF "start_cursor" \in DOMAIN query_params THEN query_params["start_cursor"] ELSE None

\* build_timeline_model(database_id, force_refresh) is called: st.cache_data
\* returns the memoized model for these arguments, or lets the body run.
CallBuildTimelineModel ==
    /\ AtRest
    /\ calls < MaxCalls
    /\ calls' = calls + 1
    /\ \E database_id \in DatabaseIds, force_refresh \in BOOLEAN :
        call' = IF cached_model(model_memo, database_id, force_refresh) # NotRun
                THEN [NoCall EXCEPT !.pc = "done",
                                    !.database_id = database_id,
                                    !.force_refresh = force_refresh,
                                    !.result = cached_model(model_memo, database_id,
                                                            force_refresh),
                                    !.log = <<"model_memo">>]
                ELSE [NoCall EXCEPT !.pc = "start",
                                    !.database_id = database_id,
                                    !.force_refresh = force_refresh]
    /\ UNCHANGED <<file, database, notion_key, entries_memo, model_memo,
                   extract_vars, builder_vars, cache_vars>>

\* entries = None; if not force_refresh: entries = load_snapshot_from_disk(...)
TryLoadSnapshot ==
    /\ call.pc = "start"
    /\ LET entries == IF call.force_refresh THEN None
                      ELSE load_snapshot_from_disk(file, call.database_id)
       IN call' = [call EXCEPT
                      !.entries = entries,
                      !.pc = after_load(entries),
                      !.log = IF call.force_refresh THEN call.log
                              ELSE Logged(IF entries = None THEN "load_miss" ELSE "load_hit")]
    /\ UNCHANGED <<file, database, notion_key, entries_memo, model_memo, calls,
                   extract_vars, builder_vars, cache_vars>>

\* get_notion_client(): st.stop() ends the run when NOTION_KEY is not set.
GetNotionClient ==
    /\ call.pc = "client"
    /\ call' = [call EXCEPT !.pc = IF notion_key THEN "fetch" ELSE "stopped"]
    /\ UNCHANGED <<file, database, notion_key, entries_memo, model_memo, calls,
                   extract_vars, builder_vars, cache_vars>>

\* get_all_database_entries(client, database_id) is called: st.cache_data
\* returns the record list memoized for database_id, or lets the body start.
EnterFetch ==
    /\ call.pc = "fetch"
    /\ call' = IF entries_memo[call.database_id] # NotRun
               THEN [call EXCEPT !.entries = entries_memo[call.database_id],
                                 !.pc = "save",
                                 !.log = Logged("entries_memo")]
               ELSE [call EXCEPT !.all_entries = << >>,
                                 !.has_more = TRUE,
                                 !.next_cursor = None,
                                 !.pc = "page"]
    /\ UNCHANGED <<file, database, notion_key, entries_memo, model_memo, calls,
                   extract_vars, builder_vars, cache_vars>>

\* One iteration of `while has_more`: the request succeeds and its results
\* are appended; the loop ends, and the list is returned and memoized, when
\* has_more is false.
QueryPage ==
    /\ call.pc = "page"
    /\ call.has_more
    /\ Len(call.requests) < MaxRequests
    /\ databases_query(database[call.database_id],
                       query_params_for(call.database_id, call.next_cursor)) # Raise
    /\ LET query_params == query_params_for(call.database_id, call.next_cursor)
           response == databases_query(database[call.database_id], query_params)
           all_entries == extend(call.all_entries, response.v["results"].v)
           has_more == Get(response, "has_more", Bool(FALSE)).v
       IN /\ call' = [call EXCEPT
                         !.all_entries = IF has_more THEN all_entries ELSE << >>,
                         !.has_more = has_more,
                         !.next_cursor = IF has_more THEN Get(response, "next_cursor", None)
                                         ELSE None,
                         !.requests = Append(@, [start_cursor |-> Sent(query_params),
                                                 response |-> response]),
                         !.log = Logged("request"),
                         !.entries = IF has_more THEN call.entries ELSE List(all_entries),
                         !.pc = IF has_more THEN "page" ELSE "save"]
          /\ entries_memo' = IF has_more THEN entries_memo
                             ELSE [entries_memo EXCEPT ![call.database_id] = List(all_entries)]
    /\ UNCHANGED <<file, database, notion_key, model_memo, calls,
                   extract_vars, builder_vars, cache_vars>>

\* The request raises (the network fails, the source rejects the cursor):
\* except Exception: st.error(...); return [] -- a return like any other,
\* so the empty list is memoized.
QueryPageFails ==
    /\ call.pc = "page"
    /\ call.has_more
    /\ Len(call.requests) < MaxRequests
    /\ call' = [fetch_abandoned(call) EXCEPT
                   !.requests = Append(@,
                       [start_cursor |-> Sent(query_params_for(call.database_id,
                                                               call.next_cursor)),
                        response |-> Raise]),
                   !.log = Logged("request_failed")]
    /\ entries_memo' = [entries_memo EXCEPT
                           ![call.database_id] = fetch_failed(call.all_entries)]
    /\ UNCHANGED <<file, database, notion_key, model_memo, calls,
                   extract_vars, builder_vars, cache_vars>>

\* save_snapshot_to_disk(database_id, entries)
SaveFetched ==
    /\ call.pc = "save"
    /\ \E fetched_at \in Timestamps :
        \E outcome \in SaveOutcomes(call.database_id, fetched_at, call.entries.v) :
            /\ file' = save_snapshot_to_disk(file, call.database_id, fetched_at,
                                             call.entries.v, outcome)
            /\ call' = [call EXCEPT
                           !.pc = "build",
                           !.log = Logged(IF outcome.ok THEN "save" ELSE "save_failed")]
    /\ UNCHANGED <<database, notion_key, entries_memo, model_memo, calls,
                   extract_vars, builder_vars, cache_vars>>

\* return build_model_from_entries(entries); st.cache_data memoizes the
\* model under the call's arguments.
BuildModel ==
    /\ call.pc = "build"
    /\ \E iter \in IterationOrders(DOMAIN group_by_chapter(call.entries.v)) :
        LET result == build_model_from_entries(call.entries.v, iter)
        IN /\ call' = [call EXCEPT !.result = result,
                                   !.pc = "done",
                                   !.log = Logged("build")]
           /\ model_memo' = [model_memo EXCEPT
                                ![<<call.database_id, call.force_refresh>>] = result]
    /\ UNCHANGED <<file, database, notion_key, entries_memo, calls,
                   extract_vars, builder_vars, cache_vars>>

\* The call has returned, or st.stop() has ended the run: its locals are gone.
Return ==
    /\ call.pc \in {"done", "stopped"}
    /\ call' = NoCall
    /\ UNCHANGED <<file, database, notion_key, entries_memo, model_memo, calls,
                   extract_vars, builder_vars, cache_vars>>

\* st.cache_data.clear(), as the refresh button of main.py does.
ClearCache ==
    /\ AtRest
    /\ \/ \E d \in DatabaseIds : entries_memo[d] # NotRun
       \/ \E k \in DatabaseIds \X BOOLEAN : model_memo[k] # NotRun
    /\ entries_memo' = [d \in DatabaseIds |-> NotRun]
    /\ model_memo' = [k \in DatabaseIds \X BOOLEAN |-> NotRun]
    /\ UNCHANGED <<file, database, notion_key, call, calls,
                   extract_vars, builder_vars, cache_vars>>

\* ttl=300 elapses for a memoized record list.  (An expiry during a call is
\* seen by the call only at its lookup, as if it had happened before it.)
ExpireEntries ==
    /\ AtRest
    /\ \E d \in DatabaseIds :
        /\ entries_memo[d] # NotRun
        /\ entries_memo' = [entries_memo EXCEPT ![d] = NotRun]
    /\ UNCHANGED <<file, database, notion_key, model_memo, call, calls,
                   extract_vars, builder_vars, cache_vars>>

\* Somebody edits the external database.  (The program reads it only in a
\* page request, so an edit during any other step of a call is seen as if
\* it had happened before the call or between two requests.)
EditDatabase ==
    /\ AtRest \/ call.pc = "page"
    /\ \E d \in DatabaseIds, pages \in DatabaseContents :
        /\ database[d] # pages
        /\ database' = [database EXCEPT ![d] = pages]
    /\ UNCHANGED <<file, notion_key, entries_memo, model_memo, call, calls,
                   extract_vars, builder_vars, cache_vars>>

Init ==
    /\ file \in StartFiles
    /\ database \in [DatabaseIds -> DatabaseContents]
    /\ notion_key \in BOOLEAN
    /\ entries_memo = [d \in DatabaseIds |-> NotRun]
    /\ model_memo = [k \in DatabaseIds \X BOOLEAN |-> NotRun]
    /\ call = NoCall
    /\ calls = 0
    /\ saved = NotRun
    /\ loaded = NotRun
    /\ ExtractIdle
    /\ BuilderIdle

Next ==
    \/ CallBuildTimelineModel
    \/ TryLoadSnapshot
    \/ GetNotionClient
    \/ EnterFetch
    \/ QueryPage
    \/ QueryPageFails
    \/ SaveFetched
    \/ BuildModel
    \/ Return
    \/ ClearCache
    \/ ExpireEntries
    \/ EditDatabase

Spec == Init /\ [][Next]_vars

-----------------------------------------------------------------------------
(* get_all_database_entries called on its own, against any source *)

InitFetch ==
    /\ database \in [DatabaseIds -> FetchSources]
    /\ \E database_id \in DatabaseIds :
           call = [NoCall EXCEPT !.pc = "fetch", !.database_id = database_id]
    /\ file = Absent
    /\ notion_key = TRUE
    /\ entries_memo = [d \in DatabaseIds |-> NotRun]
    /\ model_memo = [k \in DatabaseIds \X BOOLEAN |-> NotRun]
    /\ calls = 0
    /\ saved = NotRun
    /\ loaded = NotRun
    /\ ExtractIdle
    /\ BuilderIdle

NextFetch == EnterFetch \/ QueryPage \/ QueryPageFails

SpecFetch == InitFetch /\ [][NextFetch]_vars

-----------------------------------------------------------------------------
(* Properties of extract_property_value (SpecExtract) *)

RecognizedTypes ==
    {Str("title"), Str("rich_text"), Str("url"), Str("checkbox"), Str("select"),
     Str("relation")}

\* The named property is missing, or has no recognized type discriminator.
NoRecognizedType ==
    \/ prop_name \notin DOMAIN properties.v
    \/ "type" \notin DOMAIN properties.v[prop_name].v
    \/ properties.v[prop_name].v["type"] \notin RecognizedTypes

IsEmptyStr(x) == x.t = "str" /\ Len(x.v) = 0

\* C6: extract_property_value never raises, whatever the payload of the
\* named property (present, empty, null or missing), and it returns the
\* empty string when the property is missing or its type discriminator is
\* absent or not one of the six recognized types.
C6_ExtractTotal ==
    extracted # NotRun =>
        /\ extracted.t # "raise"
        /\ NoRecognizedType => IsEmptyStr(extracted)

\* A property of an unknown type that carries a title payload was
\* extracted, and a recognized type without its payload was extracted.
C6_Witness ==
    /\ extracted # NotRun
    /\ prop_name \in DOMAIN properties.v
    /\ "type" \in DOMAIN properties.v[prop_name].v
    /\ \/ /\ properties.v[prop_name].v["type"] = Str("number")
          /\ "title" \in DOMAIN properties.v[prop_name].v
       \/ /\ properties.v[prop_name].v["type"] = Str("title")
          /\ "title" \notin DOMAIN properties.v[prop_name].v

\* The named property exists and its type discriminator is `type`.
TypeIs(type) ==
    /\ prop_name \in DOMAIN properties.v
    /\ "type" \in DOMAIN properties.v[prop_name].v
    /\ properties.v[prop_name].v["type"] = Str(type)

\* What the named property stores under `key`, None if nothing.
Stored(key) ==
    IF key \in DOMAIN properties.v[prop_name].v
    THEN properties.v[prop_name].v[key] ELSE None

\* The text runs stored under `key`, none if no list is stored.
RunsOf(key) == IF Stored(key).t = "list" THEN Stored(key).v ELSE << >>

RunText(run) == IF "plain_text" \in DOMAIN run.v THEN run.v["plain_text"].v ELSE ""

\* The plain texts of the runs with one space between neighbours.
RECURSIVE SpaceJoined(_)
SpaceJoined(runs) ==
    IF Len(runs) = 0 THEN ""
    ELSE IF Len(runs) = 1 THEN RunText(runs[1])
    ELSE SpaceJoined(SubSeq(runs, 1, Len(runs) - 1)) \o " " \o RunText(runs[Len(runs)])

\* C21 as stated: for a property of a recognized scalar type the result is
\* that of the reference table: title, the first run's plain text or "";
\* rich_text, the runs' plain texts joined by single spaces; url, the url
\* string, or "" if no url value is stored; checkbox, the boolean, or false
\* if none is stored; select, the selected option's name, or "" if no
\* option is selected.
C21_ReferenceTable ==
    extracted # NotRun =>
        /\ TypeIs("title") =>
               extracted = Str(IF Len(RunsOf("title")) > 0
                               THEN RunText(RunsOf("title")[1]) ELSE "")
        /\ TypeIs("rich_text") => extracted = Str(SpaceJoined(RunsOf("rich_text")))
        /\ TypeIs("url") =>
               IF Stored("url").t = "str" THEN extracted = Stored("url")
               ELSE IsEmptyStr(extracted)
        /\ TypeIs("checkbox") =>
               extracted = IF Stored("checkbox").t = "bool" THEN Stored("checkbox")
                           ELSE Bool(FALSE)
        /\ TypeIs("select") =>
               IF Stored("select").t = "dict" /\ "name" \in DOMAIN Stored("select").v
               THEN extracted = Stored("select").v["name"]
               ELSE IsEmptyStr(extracted)

\* C22 as stated: for a property of type relation the result is the
\* sequence of the referenced ids, in the order and of the length of the
\* relation; the empty sequence for an empty relation.
C22_RelationIds ==
    (extracted # NotRun /\ TypeIs("relation") /\ Stored("relation").t = "list") =>
        LET rels == Stored("relation").v
        IN extracted = List([i \in 1..Len(rels) |->
                                IF "id" \in DOMAIN rels[i].v THEN rels[i].v["id"]
                                ELSE Str("")])

-----------------------------------------------------------------------------
(* Properties of build_model_from_entries (SpecModel) *)

PropsOf(entry) == Get(entry, "properties", EmptyDict)

\* The records of the input list that carry the chapter label ch.
RecordsOf(ch) == {records[i] : i \in {j \in 1..Len(records) : in_chapter(records[j], ch)}}

\* The chapter labels observed in the input list.
ObservedLabels ==
    {chapter_of(records[i]).v : i \in {j \in 1..Len(records) : Truthy(chapter_of(records[j]))}}

Flagged(entry, flag) == Truthy(extract_property_value(PropsOf(entry), flag))

\* Some record of M is an aside-outlink and some record of A a chapter
\* heading with the same resolved title.
TitleLinked(M, A) ==
    \E m \in RecordsOf(M), a \in RecordsOf(A) :
        /\ Flagged(m, "Aside Heading")
        /\ Flagged(a, "Chapter Heading")
        /\ title_from_props(PropsOf(m)) = title_from_props(PropsOf(a))

\* A is in chapter_aside_mapping[M].
Mapped(M, A) ==
    /\ M \in DOMAIN built.chapter_aside_mapping
    /\ A \in Range(built.chapter_aside_mapping[M])

\* C1 as stated: for every main chapter M of the returned list, the prologue
\* included, and every aside A: A is mapped from M iff they share a title.
C1_MappingIffSharedTitle ==
    built.t = "model" =>
        \A M \in Range(built.chapters), A \in Range(built.aside_chapters) :
            Mapped(M, A) <=> TitleLinked(M, A)

\* C1 amended: the equivalence holds for every main chapter other than the
\* prologue.
C1_MappingIffSharedTitleExceptPrologue ==
    built.t = "model" =>
        \A M \in Range(built.chapters) \ {Prologue}, A \in Range(built.aside_chapters) :
            Mapped(M, A) <=> TitleLinked(M, A)

\* A model with a main chapter mapped to one aside and not to another.
C1_Witness ==
    /\ built.t = "model"
    /\ \E M \in Range(built.chapters) \ {Prologue} :
        \E A, B \in Range(built.aside_chapters) :
            Mapped(M, A) /\ ~Mapped(M, B)

StrictlyAscending(s) == \A i, j \in 1..Len(s) : i < j => StrLess(s[i], s[j])

\* C4: the main-chapter list is "Prologue" first if observed, then exactly
\* the observed labels that start with "Chapter", ascending, each once;
\* the observed labels do not depend on the order of the input.
C4_MainChapterOrder ==
    built.t = "model" =>
        LET rest == IF Prologue \in ObservedLabels
                    THEN Tail(built.chapters) ELSE built.chapters
        IN /\ Prologue \in ObservedLabels =>
                  Len(built.chapters) > 0 /\ built.chapters[1] = Prologue
           /\ Range(rest) = {l \in ObservedLabels : startswith(l, Chapter)}
           /\ StrictlyAscending(rest)

\* The prologue record comes last in the input and the chapters come in
\* descending order, next to a label that is no main chapter.
C4_Witness ==
    /\ built.t = "model"
    /\ Len(records) = 3
    /\ in_chapter(records[1], Chapter2)
    /\ in_chapter(records[2], Chapter10)
    /\ in_chapter(records[3], Prologue)
    /\ built.chapters = <<Prologue, Chapter10, Chapter2>>

\* C5: two runs on the same input list, whatever the iteration order of the
\* chapter set in each, return the same main-chapter list, the same aside
\* list and the same chapter-to-aside mapping.
C5_Deterministic ==
    (built.t = "model" /\ built_before.t = "model") =>
        /\ built.chapters = built_before.chapters
        /\ built.aside_chapters = built_before.aside_chapters
        /\ built.chapter_aside_mapping = built_before.chapter_aside_mapping

\* Two runs on an input with two asides mapped from one main chapter.
C5_Witness ==
    /\ built.t = "model"
    /\ built_before.t = "model"
    /\ \E M \in DOMAIN built.chapter_aside_mapping :
        Len(built.chapter_aside_mapping[M]) = 2

\* C24: 'Prologue' is never a key of chapter_aside_mapping, and no
\* outlink-title set is computed for it, also when a Prologue record is
\* flagged 'Aside Heading' and its title is a heading title of an aside.
C24_PrologueNeverLinked ==
    built.t = "model" =>
        /\ Prologue \notin DOMAIN built.chapter_aside_mapping
        /\ Prologue \notin DOMAIN outlinks_of(built.entries_by_chapter, built.chapters)

\* A model whose prologue has an outlink titled as a heading of an aside,
\* next to a main chapter that is mapped to that aside.
C24_Witness ==
    /\ built.t = "model"
    /\ Prologue \in Range(built.chapters)
    /\ \E A \in Range(built.aside_chapters) :
           /\ TitleLinked(Prologue, A)
           /\ \E M \in Range(built.chapters) : Mapped(M, A)

-----------------------------------------------------------------------------
(* Properties of parse_entries_to_nodes (SpecParse) *)

IdOf(entry) == entry.v["id"].v

Count(seq, x) == Cardinality({i \in 1..Len(seq) : seq[i] = x})

\* The payload stored under `key` in the property `name` of the record, if
\* the property exists, has type `type` and stores a payload; else `default`.
PayloadOf(entry, name, type, key, default) ==
    LET props == entry.v["properties"].v
    IN IF /\ name \in DOMAIN props
          /\ "type" \in DOMAIN props[name].v
          /\ props[name].v["type"] = Str(type)
          /\ key \in DOMAIN props[name].v
       THEN props[name].v[key]
       ELSE default

\* The plain text of the first run of a title property, "" without one.
FirstRunText(entry, name) ==
    LET runs == PayloadOf(entry, name, "title", "title", List(<< >>))
    IN IF Len(runs.v) > 0 THEN runs.v[1].v["plain_text"] ELSE Str("")

ExpectedTitle(entry) ==
    IF Len(FirstRunText(entry, "Name").v) > 0 THEN FirstRunText(entry, "Name")
    ELSE IF Len(FirstRunText(entry, "Title").v) > 0 THEN FirstRunText(entry, "Title")
    ELSE Str("Untitled")

\* The ids of a relation property in source order, << >> without one.
ExpectedLinks(entry, name) ==
    LET rels == PayloadOf(entry, name, "relation", "relation", List(<< >>))
    IN [i \in 1..Len(rels.v) |-> rels.v[i].v["id"]]

\* C16: the node map has exactly the ids of the input records as keys, and
\* the node of each record has the title of its Name property if that is
\* non-empty, else of its Title property if that is non-empty, else
\* "Untitled"; the url stored in its URL property; and is_chapter_heading
\* true exactly when its Chapter Heading checkbox is true.
C16_ParsedNodes ==
    parsed.t = "nodes" =>
        /\ DOMAIN parsed.v = {IdOf(records[i]) : i \in 1..Len(records)}
        /\ \A i \in 1..Len(records) :
               LET entry == records[i]
                   node == parsed.v[IdOf(entry)]
               IN /\ node.notion_id = Str(IdOf(entry))
                  /\ node.title = ExpectedTitle(entry)
                  /\ node.url = PayloadOf(entry, "URL", "url", "url", Str(""))
                  /\ Truthy(node.is_chapter_heading) <=>
                         PayloadOf(entry, "Chapter Heading", "checkbox", "checkbox",
                                   Bool(FALSE)) = Bool(TRUE)

\* Three records parsed: one titled by its Name although its Title differs,
\* one by its Title because its Name is empty, one untitled.
C16_Witness ==
    /\ parsed.t = "nodes"
    /\ DOMAIN parsed.v = {"C", "D", "F"}
    /\ parsed.v["D"].title = Str("Delta")
    /\ parsed.v["C"].title = Str("Gamma")
    /\ parsed.v["F"].title = Str("Untitled")
    /\ Truthy(parsed.v["D"].is_chapter_heading)
    /\ ~Truthy(parsed.v["F"].is_chapter_heading)

\* C17: next_events and prior_events of each node are the ids of the
\* record's 'Next Event' and 'Prior Event' relations in source order, and
\* empty for a missing property, a property of another type or an empty
\* relation; nothing raises and no id is dropped, whether it names a record
\* of the list, the record itself or no record.
C17_LinksAsGiven ==
    parsed.t = "nodes" =>
        \A i \in 1..Len(records) :
            LET entry == records[i]
                node == parsed.v[IdOf(entry)]
            IN /\ node.next_events = ExpectedLinks(entry, "Next Event")
               /\ node.prior_events = ExpectedLinks(entry, "Prior Event")
               /\ node.title.t # "raise"
               /\ node.url.t # "raise"
               /\ node.is_chapter_heading.t # "raise"

\* Parsed: a record linking to a record outside the list and to itself, in
\* a cycle with a second record, and a record whose 'Next Event' is text.
C17_Witness ==
    /\ parsed.t = "nodes"
    /\ DOMAIN parsed.v = {"A", "B", "G"}
    /\ parsed.v["A"].next_events = <<Str("B"), Str("ZZ")>>
    /\ parsed.v["A"].prior_events = <<Str("A")>>
    /\ parsed.v["B"].next_events = <<Str("A")>>
    /\ parsed.v["B"].prior_events = <<Str("B"), Str("A")>>
    /\ parsed.v["G"].next_events = << >>

-----------------------------------------------------------------------------
(* Properties of create_graphviz_flowchart (SpecGraph) *)

\* The record of the drawn chapter that the node under `id` was parsed from.
RecordOf(id) ==
    LET es == built.entries_by_chapter[chart.chapter_name]
    IN es[CHOOSE i \in 1..Len(es) :
              /\ Get(es[i], "id", Str("")).v = id
              /\ \A j \in (i + 1)..Len(es) : Get(es[j], "id", Str("")).v # id]

\* The asides, among those passed to the call, whose heading titles hold
\* the title of the node under `id`.
AsidesTitled(id) ==
    {a \in Range(chart.titles_by_aside.keys) :
        chart.nodes[id].title \in chart.titles_by_aside.v[a]}

\* "?chapter=Aside%201" and "?chapter=Aside%202"
HrefOf(aside) ==
    IF aside = Aside1
    THEN Str(<<63, 99, 104, 97, 112, 116, 101, 114, 61, 65, 115, 105, 100, 101, 37, 50, 48, 49>>)
    ELSE IF aside = Aside2
    THEN Str(<<63, 99, 104, 97, 112, 116, 101, 114, 61, 65, 115, 105, 100, 101, 37, 50, 48, 50>>)
    ELSE None

\* The call was given the chapter's records and a dict of heading titles.
WithContext ==
    /\ chart.t = "chart"
    /\ chart.current_entries # None
    /\ chart.titles_by_aside # None

\* C13 as stated: in a diagram drawn with the chapter's records and the
\* asides' heading titles, every node whose record is flagged 'Aside
\* Heading' and whose title is a heading title of some aside has the marker
\* on its label and the href '?chapter=<that aside, spaces as %20>',
\* whatever its url.
C13_OutlinkRewritten ==
    WithContext =>
        \A i \in 1..Len(chart.keys) :
            LET id == chart.keys[i]
            IN (Flagged(RecordOf(id), "Aside Heading") /\ AsidesTitled(id) # {}) =>
                   /\ chart.dot.nodes[i].marker
                   /\ \E a \in AsidesTitled(id) : chart.dot.nodes[i].href = HrefOf(a)

\* The href is an in-app navigation reference: it starts with "?chapter=".
InApp(href) ==
    /\ href.t = "str"
    /\ Len(href.v) >= 9
    /\ SubSeq(href.v, 1, 9) = <<63, 99, 104, 97, 112, 116, 101, 114, 61>>

\* The call was given no aside whose heading titles hold the node's title.
NoAsideTitled(id) ==
    chart.titles_by_aside = None \/ AsidesTitled(id) = {}

\* C29 as stated: a node statement has the marker or target '_self' only
\* if its href is an in-app '?chapter=' reference; a node whose title is
\* in no aside's heading-title set has no marker and, if it has a url,
\* that url as href with target '_blank'.
C29_MarkedOnlyInApp ==
    chart.t = "chart" =>
        \A i \in 1..Len(chart.keys) :
            LET id == chart.keys[i]
                statement == chart.dot.nodes[i]
            IN /\ (statement.marker \/ statement.target = Str("_self")) =>
                      InApp(statement.href)
               /\ (NoAsideTitled(id) /\ Truthy(chart.nodes[id].url)) =>
                      /\ ~statement.marker
                      /\ statement.href = chart.nodes[id].url
                      /\ statement.target = Str("_blank")

\* C14: the diagram has one node statement per EventNode of the map, in key
\* order, and between any two nodes as many edge statements as the first
\* node's next_events has entries naming the second; so an entry naming no
\* key of the map, and prior_events, give no edge.
C14_NodesAndEdges ==
    chart.t = "chart" =>
        LET n == Len(chart.keys)
            dot == chart.dot
        IN /\ dot.t = "dot"
           /\ Range(chart.keys) = DOMAIN chart.nodes
           /\ n = Cardinality(DOMAIN chart.nodes)
           /\ Len(dot.nodes) = n
           /\ \A i \in 1..n :
                  /\ dot.nodes[i].dot_id = i - 1
                  /\ dot.nodes[i].label = chart.nodes[chart.keys[i]].title
           /\ \A e \in Range(dot.edges) :
                  e.source \in 0..(n - 1) /\ e.target \in 0..(n - 1)
           /\ \A i, j \in 1..n :
                  Count(dot.edges, [source |-> i - 1, target |-> j - 1]) =
                      Count(chart.nodes[chart.keys[i]].next_events, Str(chart.keys[j]))

\* A diagram of nodes with a resolvable link, a link that names no node of
\* the map, a link given twice and a prior link.
C14_Witness ==
    /\ chart.t = "chart"
    /\ Len(chart.dot.nodes) = 3
    /\ Len(chart.dot.edges) = 3
    /\ \E id \in DOMAIN chart.nodes :
           \E k \in 1..Len(chart.nodes[id].next_events) :
               chart.nodes[id].next_events[k].v \notin DOMAIN chart.nodes
    /\ \E id \in DOMAIN chart.nodes :
           Count(chart.nodes[id].next_events, Str("M1")) = 2
    /\ \E id \in DOMAIN chart.nodes : Len(chart.nodes[id].prior_events) > 0

-----------------------------------------------------------------------------
(* Properties of the grouping by chapter (SpecGroup) *)

\* The name of the option selected in the record's Chapter property, << >>
\* without such a property, such a type, an option or a name.
SelectedChapter(entry) ==
    LET option == PayloadOf(entry, "Chapter", "select", "select", None)
    IN IF option.t = "dict" /\ "name" \in DOMAIN option.v
       THEN option.v["name"].v ELSE << >>

\* C18: a record without a resolvable chapter value is in no per-chapter
\* record list and in no per-chapter node map, and the build returns a
\* model; a record with one is in the list of its chapter label, as often
\* as it is in the input, and in no other.
C18_UnresolvedDropped ==
    (built # NotRun) =>
        /\ built.t = "model"
        /\ \A i \in 1..Len(records) :
               LET entry == records[i]
                   label == SelectedChapter(entry)
               IN /\ \A ch \in DOMAIN built.entries_by_chapter :
                         Count(built.entries_by_chapter[ch], entry) =
                             IF ch = label THEN Count(records, entry) ELSE 0
                  /\ Len(label) > 0 => label \in DOMAIN built.entries_by_chapter
                  /\ Len(label) = 0 =>
                         \A ch \in DOMAIN built.nodes_by_chapter :
                             IdOf(entry) \notin DOMAIN built.nodes_by_chapter[ch]

\* A model built from a record of a main chapter, a record whose Chapter
\* has another type and a record whose option name is empty.
C18_Witness ==
    /\ built.t = "model"
    /\ Len(records) = 3
    /\ DOMAIN built.entries_by_chapter = {Chapter1}
    /\ Len(built.entries_by_chapter[Chapter1]) = 1
    /\ {IdOf(records[i]) : i \in 1..3} = {"K1", "U4", "U5"}

\* The chapter labels selected in the records of the input list.
SelectedLabels ==
    {SelectedChapter(records[i]) : i \in 1..Len(records)} \ {<< >>}

\* C26: nodes_by_chapter has a node map for exactly the chapters of the
\* main list and of the aside list; the keys of a chapter's node map are
\* the ids of the records grouped under that chapter; a label that is
\* neither 'Prologue' nor prefixed 'Chapter' or 'Aside' has a record list
\* but no node map.
C26_NodeMapsPerChapter ==
    built.t = "model" =>
        /\ DOMAIN built.nodes_by_chapter =
               Range(built.chapters) \cup Range(built.aside_chapters)
        /\ \A ch \in DOMAIN built.nodes_by_chapter :
               DOMAIN built.nodes_by_chapter[ch] =
                   {IdOf(records[i]) : i \in {j \in 1..Len(records) :
                                                 SelectedChapter(records[j]) = ch}}
        /\ \A label \in SelectedLabels :
               (label # Prologue /\ ~startswith(label, Chapter) /\ ~startswith(label, Aside)) =>
                   /\ label \in DOMAIN built.entries_by_chapter
                   /\ Len(built.entries_by_chapter[label]) > 0
                   /\ label \notin DOMAIN built.nodes_by_chapter

\* A model built from a record of a main chapter, one of an aside and one
\* labelled 'Epilogue'.
C26_Witness ==
    /\ built.t = "model"
    /\ SelectedLabels = {Chapter1, Aside1, Epilogue}
    /\ DOMAIN built.nodes_by_chapter = {Chapter1, Aside1}
    /\ DOMAIN built.nodes_by_chapter[Aside1] = {"K3"}

\* C19: the aside-chapter list holds exactly the observed chapter labels
\* that start with "Aside", in ascending order, each once, and none of
\* them is in the main-chapter list.
C19_AsideList ==
    built.t = "model" =>
        /\ Range(built.aside_chapters) =
               {l \in SelectedLabels :
                   Len(l) >= 5 /\ SubSeq(l, 1, 5) = <<65, 115, 105, 100, 101>>}
        /\ StrictlyAscending(built.aside_chapters)
        /\ Range(built.aside_chapters) \cap Range(built.chapters) = {}

\* The asides come in descending order in the input, one of them twice.
C19_Witness ==
    /\ built.t = "model"
    /\ Len(records) = 3
    /\ SelectedChapter(records[1]) = Aside2
    /\ SelectedChapter(records[2]) = Aside1
    /\ SelectedChapter(records[3]) = Aside2
    /\ built.aside_chapters = <<Aside1, Aside2>>

-----------------------------------------------------------------------------
(* Properties of the snapshot cache (SpecCache) *)

FileParses == file # Absent /\ json_load(file.v) # Raise
\* That value is an object.
FileIsObject == FileParses /\ json_load(file.v).t = "dict"
FileStoredId == Get(json_load(file.v), "database_id", None)
FileStoredEntries == Get(json_load(file.v), "all_entries", None)

\* C10: load returns None, and raises nothing, when the file does not
\* exist, does not parse, is not an object, stores another database_id or
\* stores an all_entries that is not a list; otherwise it returns the
\* stored all_entries.
C10_LoadAbsentOrStored ==
    loaded.t = "load" =>
        /\ loaded.result # Raise
        /\ IF \/ file = Absent
              \/ ~FileParses
              \/ ~FileIsObject
              \/ FileStoredId # Str(loaded.database_id)
              \/ FileStoredEntries.t # "list"
           THEN loaded.result = None
           ELSE loaded.result = FileStoredEntries

\* A load under the stored database_id of an object whose all_entries is
\* not a list.
C10_Witness ==
    /\ loaded.t = "load"
    /\ FileIsObject
    /\ FileStoredId = Str(loaded.database_id)
    /\ FileStoredEntries.t = "dict"
    /\ loaded.result = None

\* C11 as stated: a save that fails leaves the persisted state as it was: a
\* load that follows it returns what a load before it would have returned.
C11_FailedSaveIsNoOp ==
    (saved.t = "save" /\ ~saved.ok /\ loaded.t = "load") =>
        /\ loaded.result # Raise
        /\ loaded.result = load_snapshot_from_disk(saved.before, loaded.database_id)

\* C12: after a save that completed, whatever was saved or lay at the cache
\* path before, a load is a hit under the source id of that save only, and
\* returns the records of that save.
C12_SingleSnapshot ==
    (saved.t = "save" /\ saved.ok) =>
        \A s \in DatabaseIds :
            load_snapshot_from_disk(file, s) =
                IF s = saved.database_id THEN List(saved.all_entries) ELSE None

\* A snapshot saved under db-1 was loadable, then a save under db-2
\* completed and a load under db-1 followed.
C12_Witness ==
    /\ saved.t = "save"
    /\ saved.ok
    /\ saved.database_id = "db-2"
    /\ load_snapshot_from_disk(saved.before, "db-1") = List(<<EntryA, EntryB>>)
    /\ loaded.t = "load"
    /\ loaded.database_id = "db-1"
    /\ loaded.result = None

-----------------------------------------------------------------------------
(* Properties of build_timeline_model (Spec) *)

Events == Range(call.log)

\* The call has completed with force_refresh = force.
Done(force) == call.pc = "done" /\ call.force_refresh = force

\* The events by which a call obtains records from the external source.
IsRequest(event) == event \in {"request", "request_failed"}

\* C2 as stated: a completed call with force_refresh=true was served from
\* neither memo: it issued its own requests and returns the model of the
\* records they fetched.
C2_RefreshNeverMemoized ==
    Done(TRUE) =>
        /\ "model_memo" \notin Events
        /\ "entries_memo" \notin Events
        /\ \E i \in 1..Len(call.log) : IsRequest(call.log[i])
        /\ call.result = model_of(call.entries.v)

\* C7: a completed call with force_refresh=false whose snapshot load was a
\* hit returns the model of exactly the loaded records, has issued no
\* request and has not written the file: its only events are the load and
\* the build, and the file still loads as the records it used.
C7_SnapshotHitFrame ==
    (Done(FALSE) /\ "load_hit" \in Events) =>
        /\ call.log = <<"load_hit", "build">>
        /\ call.entries = load_snapshot_from_disk(file, call.database_id)
        /\ call.result = model_of(call.entries.v)

\* A hit on a snapshot that is older than the external source.
C7_Witness ==
    /\ Done(FALSE)
    /\ "load_hit" \in Events
    /\ call.entries = List(<<EntryA>>)
    /\ database[call.database_id].pages = << <<EntryA>>, <<EntryB>> >>

\* C8 as stated: a call with force_refresh=true whose body runs reads no
\* snapshot and its events are: page requests to the external source, then
\* the save, then the build.
C8_RefreshFetchSaveBuild ==
    (Done(TRUE) /\ "model_memo" \notin Events) =>
        LET n == Len(call.log)
        IN /\ n >= 3
           /\ \A i \in 1..(n - 2) : IsRequest(call.log[i])
           /\ call.log[n - 1] \in {"save", "save_failed"}
           /\ call.log[n] = "build"

C15_FailedFetchIsEmpty ==
    /\ ("request_failed" \in Events /\ call.pc \in {"save", "build", "done"}) =>
           /\ call.entries = List(<< >>)
           /\ entries_memo[call.database_id] = List(<< >>)
    /\ call.pc \in {"save", "build"} => call.entries.t = "list"
    /\ ("request_failed" \in Events /\ call.pc = "done") =>
           call.result = model_of(<< >>)

\* The second page request of a fetch failed after the first had returned a
\* record, and the call completed.
C15_Witness ==
    /\ Done(FALSE)
    /\ Len(call.log) = 5
    /\ SubSeq(call.log, 1, 3) = <<"load_miss", "request", "request_failed">>
    /\ call.result = model_of(<< >>)

\* The step is an explicit refresh: st.cache_data.clear().
IsClear ==
    /\ \A d \in DatabaseIds : entries_memo'[d] = NotRun
    /\ \A k \in DatabaseIds \X BOOLEAN : model_memo'[k] = NotRun
    /\ call' = call

\* C20: the model a call with force_refresh=false returns is memoized for
\* its source id; the memoized model stays as it is until an explicit
\* refresh; and while it is there, a call with force_refresh=false for that
\* source id returns it with no event but the memo lookup: no snapshot
\* read, no request, no build.
C20_ReusedUntilRefresh ==
    /\ [](Done(FALSE) => model_memo[<<call.database_id, FALSE>>] = call.result)
    /\ [][\A d \in DatabaseIds :
             model_memo[<<d, FALSE>>] # NotRun =>
                 /\ model_memo'[<<d, FALSE>>] = model_memo[<<d, FALSE>>] \/ IsClear
                 /\ (/\ call.pc = "idle"
                     /\ call'.pc # "idle"
                     /\ call'.database_id = d
                     /\ ~call'.force_refresh) =>
                        /\ call'.pc = "done"
                        /\ call'.result = model_memo[<<d, FALSE>>]
                        /\ call'.log = <<"model_memo">>]_vars

\* The third call, the second with force_refresh=false for db-1, is served
\* from the memo after the record list memoized for db-1 has expired and
\* the external source has changed.
C20_Witness ==
    /\ Done(FALSE)
    /\ calls = 3
    /\ call.database_id = "db-1"
    /\ call.log = <<"model_memo">>
    /\ entries_memo["db-1"] = NotRun
    /\ model_memo[<<"db-1", TRUE>>] = NotRun
    /\ model_memo[<<"db-2", FALSE>>] # NotRun
    /\ call.result # model_of(Concat(database["db-1"].pages))

\* C23 as stated: the snapshot is written only after a fetch that
\* succeeded: the save step of a call whose fetch failed, and was turned
\* into the empty result, leaves the stored snapshot as it is.
C23_FailedFetchKeepsSnapshot ==
    [][(call.pc = "save" /\ "request_failed" \in Events) => file' = file]_vars

\* The exchange with the source during the running call.
Requests == call.requests

Failed(i) == Requests[i].response = Raise

HasMore(i) == Requests[i].response.v["has_more"] = Bool(TRUE)

\* The results of the first n responses, in request order.
RECURSIVE ResultsUpTo(_)
ResultsUpTo(n) ==
    IF n = 0 THEN << >>
    ELSE ResultsUpTo(n - 1) \o Requests[n].response.v["results"].v

\* C25: the first page request of a fetch carries no cursor and each later
\* one the next_cursor of the response before it, which had has_more true;
\* the loop goes on while responses have has_more true, and the fetch
\* returns, after a response with has_more false, the results of all pages
\* in request order.
C25_PagedInOrder ==
    /\ Len(Requests) > 0 => Requests[1].start_cursor = None
    /\ \A i \in 2..Len(Requests) :
           /\ ~Failed(i - 1)
           /\ HasMore(i - 1)
           /\ Requests[i].start_cursor = Requests[i - 1].response.v["next_cursor"]
    /\ call.pc = "page" => \A i \in 1..Len(Requests) : ~Failed(i) /\ HasMore(i)
    /\ (call.pc \in {"save", "build", "done"} /\ Len(Requests) > 0
           /\ ~Failed(Len(Requests))) =>
           /\ ~HasMore(Len(Requests))
           /\ call.entries = List(ResultsUpTo(Len(Requests)))

\* A fetch of two pages has returned the records of both.
C25_Witness ==
    /\ call.pc = "save"
    /\ Len(Requests) = 2
    /\ Requests[2].start_cursor = Cursor(2)
    /\ call.entries = List(<<EntryA, EntryB>>)

\* C27: within one call a failed page request is the last request to the
\* source, and the call completes with the empty record set.
C27_NoRetry ==
    /\ \A i \in 1..Len(Requests) : Failed(i) => i = Len(Requests)
    /\ \A i \in 1..Len(call.log) :
           call.log[i] = "request_failed" =>
               \A j \in (i + 1)..Len(call.log) : ~IsRequest(call.log[j])
    /\ (call.pc = "done" /\ Len(Requests) > 0 /\ Failed(Len(Requests))) =>
           /\ call.entries.v = << >>
           /\ call.result.entry_count = 0

\* A call has completed whose second page request failed.
C27_Witness ==
    /\ call.pc = "done"
    /\ Len(Requests) = 2
    /\ ~Failed(1)
    /\ Failed(2)
    /\ call.log[Len(call.log)] = "build"

\* The page a request asks for: the first for a request without a cursor.
PageOf(request) ==
    IF request.start_cursor = None THEN 1 ELSE request.start_cursor.v[1]

\* C30 as stated: within one fetch no page is requested twice, whatever
\* next_cursor the source sends along with has_more true.
C30_NoPageTwice ==
    \A i, j \in 1..Len(Requests) :
        i < j => PageOf(Requests[i]) # PageOf(Requests[j])

\* The snapshot on disk belongs to database_id and holds a record list.
SnapshotOf(database_id) ==
    /\ FileIsObject
    /\ FileStoredId = Str(database_id)
    /\ FileStoredEntries.t = "list"

\* C28 as stated: when a call with force_refresh=true has returned for a
\* source id and the snapshot on disk holds the records of that refresh, a
\* call with force_refresh=false for that id returns a model of those
\* records.
C28_FreshAfterRefresh ==
    LET refreshed == model_memo[<<call.database_id, TRUE>>]
    IN (/\ Done(FALSE)
        /\ refreshed # NotRun
        /\ SnapshotOf(call.database_id)
        /\ refreshed.entries_by_chapter = group_by_chapter(FileStoredEntries.v)) =>
           call.result.entries_by_chapter = refreshed.entries_by_chapter

====
